---- MODULE Spec2Model ----
(***************************************************************************)
(* Model of the GoT patch-generation example and its language-model        *)
(* adapters:                                                               *)
(*   - ChatGPT.generate / query / chat / get_response_texts  (chatgpt.py)  *)
(*   - GeminiLanguageModel._query_lm                          (gemini.py)  *)
(*   - PatchPrompter / PatchParser / graph construction (generate_patch.py)*)
(* One set of variables, one specification per subsystem.                  *)
(***************************************************************************)
EXTENDS Integers, Sequences, FiniteSets, TLC

VARIABLES
    \* ---- ChatGPT adapter (chatgpt.py)
    cache,              \* self.cache
    response_cache,     \* self.response_cache : prompt -> response
    prompt_tokens,      \* self.prompt_tokens
    completion_tokens,  \* self.completion_tokens
    pc,                 \* position inside query(): "idle" | "single" | "loop"
    query,              \* query() argument query
    num_generations,    \* generate() argument, as the caller passed it
    num_responses,      \* query() local/argument, decremented by the loop
    next_try,           \* query() local
    total_num_attempts, \* query() local
    response,           \* query() local: list of ChatCompletion
    tries,              \* failed tries of the running chat() call (backoff)
    result,             \* outcome of the last generate() call
    calls,              \* number of generate() calls made so far
    ok_chats,           \* chat() calls of the running query() that returned
    failed_chats,       \* chat() calls of the running query() that raised
    used_prompt,        \* sum of usage.prompt_tokens of the responses received
    used_completion,    \* sum of usage.completion_tokens of the responses received
    \* ---- GeminiLanguageModel._query_lm (gemini.py)
    f_n,                \* argument n
    f_responses,        \* local responses
    f_ok,               \* per sample: did the backend request succeed
    f_pc,               \* "off" | "query" | "parse" | "done"
    \* ---- PatchParser (generate_patch.py)
    heap,               \* the payload mappings (dict objects), by identity
    p_method,           \* the parser method called
    p_states,           \* its state argument(s): identities in heap
    p_texts,            \* its texts argument
    p_pre,              \* heap at the time of the call
    p_status,           \* "off" | "call" | "returned" | "raised"
    p_out,              \* the returned list (identities or scores)
    \* ---- KeepBestN on its own
    k_n,                \* parameter n
    k_in,               \* the scored thoughts it receives
    k_out,              \* the thoughts it emits
    k_pc,               \* "off" | "ready" | "done"
    \* ---- the controller run of the example graph
    status,             \* per operation: "waiting" | "running" | "done"
    order,              \* the operations in the order they were started
    produced,           \* per operation: its produced thoughts
    next_id,            \* the next thought id
    \* ---- ValidateAndImproveOperation (generate_patch.py)
    v_objs,             \* the Thought objects, by identity: state and valid
    v_pre,              \* v_objs at the time _execute is called
    v_prev,             \* the produced thoughts of the predecessor: identities
    v_thoughts,         \* self.thoughts: identities
    v_pc,               \* "off" | "ready" | "done"
    \* ---- concurrent ChatGPT.chat calls on one instance (chatgpt.py)
    t_pc,               \* per thread: its position in chat()
    t_usage,            \* per thread: response.usage of its response
    t_tmp,              \* per thread: the attribute value it has loaded for +=
    t_k,                \* per thread: prompt_tokens_k and completion_tokens_k
    cost,               \* self.cost
    \* ---- run() and the starved sample bookkeeping of the controller run
    sample_ok,            \* per sample of the root Generate: did its request succeed
    run_report          \* what run() reports: "none" | "saved" | "empty" | "raised"

adapterVars == <<cache, response_cache, prompt_tokens, completion_tokens, pc,
                 query, num_generations, num_responses, next_try,
                 total_num_attempts, response, tries, result, calls,
                 ok_chats, failed_chats, used_prompt, used_completion>>

fanoutVars == <<f_n, f_responses, f_ok, f_pc>>

parserVars == <<heap, p_method, p_states, p_texts, p_pre, p_status, p_out>>

keepVars == <<k_n, k_in, k_out, k_pc>>

ctrlVars == <<status, order, produced, next_id, sample_ok, run_report>>

validateVars == <<v_objs, v_pre, v_prev, v_thoughts, v_pc>>

concVars == <<t_pc, t_usage, t_tmp, t_k, cost>>

vars == <<adapterVars, fanoutVars, parserVars, keepVars, ctrlVars, validateVars,
          concVars>>

notAdapter == <<fanoutVars, parserVars, keepVars, ctrlVars, validateVars, concVars>>
notFanout == <<adapterVars, keepVars, ctrlVars, validateVars, concVars>>
notParser == <<adapterVars, fanoutVars, keepVars, ctrlVars, validateVars, concVars>>
notKeep == <<adapterVars, fanoutVars, parserVars, ctrlVars, validateVars, concVars>>
notCtrl == <<adapterVars, fanoutVars, parserVars, keepVars, validateVars, concVars>>
notValidate == <<adapterVars, fanoutVars, parserVars, keepVars, ctrlVars, concVars>>
\* what concurrent chat() calls leave alone: everything but the counters
notConc == <<cache, response_cache, pc, query, num_generations, num_responses,
             next_try, total_num_attempts, response, tries, result, calls,
             ok_chats, failed_chats,
             fanoutVars, parserVars, keepVars, ctrlVars, validateVars>>

-----------------------------------------------------------------------------
\* Bounds of the model
MaxCalls == 2
MaxCount == 3
MaxUsage == 1
MaxBranches == 5
MaxTextLen == 3
MaxTexts == 2
MaxKeep == 4
MaxThoughts == 4
MaxThreads == 2

Prompts == {"p", "q"}

\* @backoff.on_exception(backoff.expo, OpenAIError, max_time=10, max_tries=6)
max_tries == 6

Min(a, b) == IF a <= b THEN a ELSE b

-----------------------------------------------------------------------------
\* A ChatCompletion with n choices answering prompt q; the content of a
\* choice is abstracted to the prompt it answers.
ChatCompletion(q, n) == [choices |-> [i \in 1..n |-> q]]

RECURSIVE FlattenChoices(_)
FlattenChoices(rs) ==
    IF rs = <<>> THEN <<>>
    ELSE Head(rs).choices \o FlattenChoices(Tail(rs))

\* get_response_texts: a single ChatCompletion is wrapped in a list, then the
\* contents of all choices of all completions are concatenated in order.
get_response_texts(r) ==
    FlattenChoices(IF r.list THEN r.items ELSE <<r.items[1]>>)

Returned(texts) == [kind |-> "returned", texts |-> texts]
Raised == [kind |-> "raised", texts |-> <<>>]
NoResult == [kind |-> "none", texts |-> <<>>]

\* self.response_cache[query] = response (only when self.cache)
CacheStore(q, r) ==
    IF cache
    THEN [k \in (DOMAIN response_cache) \cup {q} |->
             IF k = q THEN r ELSE response_cache[k]]
    ELSE response_cache

\* After __init__: the cache flag is the constructor's argument; the empty
\* response cache and the zero counters are set by the base class
\* constructor that __init__ calls (line 48).
AdapterInit ==
    /\ cache \in BOOLEAN
    /\ response_cache = <<>>
    /\ prompt_tokens = 0
    /\ completion_tokens = 0
    /\ pc = "idle"
    /\ query = "p"
    /\ num_generations = 1
    /\ num_responses = 1
    /\ next_try = 0
    /\ total_num_attempts = 0
    /\ response = <<>>
    /\ tries = 0
    /\ result = NoResult
    /\ calls = 0
    /\ ok_chats = 0
    /\ failed_chats = 0
    /\ used_prompt = 0
    /\ used_completion = 0

\* generate(prompt, num_generations) -> query(prompt, num_responses): the
\* cache lookup and the choice between the single request and the loop.
Generate(q, n) ==
    /\ pc = "idle"
    /\ calls < MaxCalls
    /\ calls' = calls + 1
    /\ query' = q
    /\ num_generations' = n
    /\ num_responses' = n
    /\ tries' = 0
    /\ IF cache /\ q \in DOMAIN response_cache
       THEN /\ result' = Returned(get_response_texts(response_cache[q]))
            /\ pc' = "idle"
            /\ UNCHANGED <<next_try, total_num_attempts, response>>
       ELSE IF n = 1
       THEN /\ pc' = "single"
            /\ result' = NoResult
            /\ UNCHANGED <<next_try, total_num_attempts, response>>
       ELSE /\ pc' = "loop"
            /\ result' = NoResult
            /\ response' = <<>>
            /\ next_try' = n
            /\ total_num_attempts' = n
    /\ ok_chats' = 0
    /\ failed_chats' = 0
    /\ UNCHANGED <<cache, response_cache, prompt_tokens, completion_tokens,
                   used_prompt, used_completion>>
    /\ UNCHANGED notAdapter

\* while num_responses > 0: the loop without its bound on the attempts
LoopCondNoAttempts == num_responses > 0

\* while num_responses > 0 and total_num_attempts > 0
LoopCond == num_responses > 0 /\ total_num_attempts > 0

\* a chat() call is waiting for the service
InFlight ==
    \/ pc = "single"
    \/ pc = "loop" /\ LoopCond /\ next_try > 0

\* self.prompt_tokens = response.usage.prompt_tokens: the counter is
\* overwritten
AddUsageAssign(counter, usage) == usage

\* self.prompt_tokens += response.usage.prompt_tokens, and the same for
\* completion_tokens
AddUsage(counter, usage) == counter + usage

\* chat(): the service answers; usage is added to the counters and the
\* completion is returned to query().
ChatOk(pu, cu) ==
    /\ InFlight
    /\ prompt_tokens' = AddUsage(prompt_tokens, pu)
    /\ completion_tokens' = AddUsage(completion_tokens, cu)
    /\ used_prompt' = used_prompt + pu
    /\ used_completion' = used_completion + cu
    /\ ok_chats' = ok_chats + 1
    /\ tries' = 0
    /\ IF pc = "single"
       THEN LET r == [list |-> FALSE, items |-> <<ChatCompletion(query, num_responses)>>]
            IN /\ response_cache' = CacheStore(query, r)
               /\ result' = Returned(get_response_texts(r))
               /\ pc' = "idle"
               /\ UNCHANGED <<num_responses, next_try, total_num_attempts, response>>
       ELSE /\ response' = Append(response, ChatCompletion(query, next_try))
            /\ num_responses' = num_responses - next_try
            /\ next_try' = Min(num_responses - next_try, next_try)
            /\ UNCHANGED <<response_cache, result, pc, total_num_attempts>>
    /\ UNCHANGED <<cache, query, num_generations, calls, failed_chats>>
    /\ UNCHANGED notAdapter

\* chat(): the service raises OpenAIError and backoff tries again.
ChatRetry ==
    /\ InFlight
    /\ tries + 1 < max_tries
    /\ tries' = tries + 1
    /\ UNCHANGED <<cache, response_cache, prompt_tokens, completion_tokens, pc,
                   query, num_generations, num_responses, next_try,
                   total_num_attempts, response, result, calls,
                   ok_chats, failed_chats, used_prompt, used_completion>>
    /\ UNCHANGED notAdapter

\* chat() raises (backoff gave up after max_tries or max_time, or the
\* exception is not an OpenAIError) in the single-request branch: nothing
\* catches it, generate() raises.
SingleRaises ==
    /\ pc = "single"
    /\ pc' = "idle"
    /\ result' = Raised
    /\ tries' = 0
    /\ failed_chats' = failed_chats + 1
    /\ UNCHANGED <<cache, response_cache, prompt_tokens, completion_tokens,
                   query, num_generations, num_responses, next_try,
                   total_num_attempts, response, calls,
                   ok_chats, used_prompt, used_completion>>
    /\ UNCHANGED notAdapter

\* next_try = (num_responses + 1) // 2: half of what is still owed
HalveRemaining(n) == (num_responses + 1) \div 2

\* next_try = next_try // 2: half, rounded down
HalveFloor(n) == n \div 2

\* next_try = (next_try + 1) // 2: half of the failed request size, rounded up
HalveNextTry(n) == (n + 1) \div 2

\* except Exception in the loop: the assertion failed or chat() raised.
LoopExcept ==
    /\ pc = "loop"
    /\ LoopCond
    /\ next_try' = HalveNextTry(next_try)
    /\ total_num_attempts' = total_num_attempts - 1
    /\ tries' = 0
    /\ failed_chats' = IF next_try > 0 THEN failed_chats + 1 ELSE failed_chats
    /\ UNCHANGED <<cache, response_cache, prompt_tokens, completion_tokens, pc,
                   query, num_generations, num_responses, response, result,
                   calls, ok_chats, used_prompt, used_completion>>
    /\ UNCHANGED notAdapter

\* the loop ends: the response list is cached and returned.
LoopReturn ==
    /\ pc = "loop"
    /\ ~LoopCond
    /\ LET r == [list |-> TRUE, items |-> response]
       IN /\ response_cache' = CacheStore(query, r)
          /\ result' = Returned(get_response_texts(r))
    /\ pc' = "idle"
    /\ UNCHANGED <<cache, prompt_tokens, completion_tokens, query,
                   num_generations, num_responses, next_try,
                   total_num_attempts, response, tries, calls,
                   ok_chats, failed_chats, used_prompt, used_completion>>
    /\ UNCHANGED notAdapter

\* the adapter, unused
AdapterOff ==
    /\ cache = FALSE
    /\ response_cache = <<>>
    /\ prompt_tokens = 0
    /\ completion_tokens = 0
    /\ pc = "off"
    /\ query = "p"
    /\ num_generations = 1
    /\ num_responses = 1
    /\ next_try = 0
    /\ total_num_attempts = 0
    /\ response = <<>>
    /\ tries = 0
    /\ result = NoResult
    /\ calls = 0
    /\ ok_chats = 0
    /\ failed_chats = 0
    /\ used_prompt = 0
    /\ used_completion = 0

AdapterNext ==
    \/ \E q \in Prompts, n \in 1..MaxCount : Generate(q, n)
    \/ \E pu \in 0..MaxUsage, cu \in 0..MaxUsage : ChatOk(pu, cu)
    \/ ChatRetry
    \/ SingleRaises
    \/ LoopExcept
    \/ LoopReturn


-----------------------------------------------------------------------------
(***************************************************************************)
(* Texts.  A backend text is a sequence of tokens; every token stands for  *)
(* a run of characters that contains none of the other tokens, so that     *)
(* str.find, str.split, slicing and str.strip act on token boundaries.     *)
(*   "<PatchedCode>" ... the tags      "~~~"  a markdown fence (three backquotes) *)
(*   "java"  the word java             " "    white space                  *)
(*   "x" "y" other characters (code, prose)                                *)
(*   "{" "}" braces; "7" a JSON number; "score:7" the member "score": 7,   *)
(*   "score:-1", "score:null", "score:str" ("score": "high"),              *)
(*   "rationale:r" the member "rationale": "r"  (separating commas are     *)
(*   part of the member tokens)                                            *)
(***************************************************************************)
StartTag(tag) == CASE tag = "PatchedCode" -> "<PatchedCode>"
                   [] tag = "FinalCode" -> "<FinalCode>"
                   [] tag = "Evaluation" -> "<Evaluation>"

EndTag(tag) == CASE tag = "PatchedCode" -> "</PatchedCode>"
                 [] tag = "FinalCode" -> "</FinalCode>"
                 [] tag = "Evaluation" -> "</Evaluation>"

\* text.find(tok, from): the first position >= from holding tok, 0 if none
\* (positions count from 1; Python's -1 is 0 here).
Find(text, tok, from) ==
    LET hits == {i \in from..Len(text) : text[i] = tok}
    IN IF hits = {} THEN 0 ELSE CHOOSE i \in hits : \A j \in hits : i <= j

\* text.rfind(tok): the last position holding tok, 0 if none.
RFind(text, tok) ==
    LET hits == {i \in 1..Len(text) : text[i] = tok}
    IN IF hits = {} THEN 0 ELSE CHOOSE i \in hits : \A j \in hits : i >= j

\* text[a:b] with a, b positions as above (empty when b < a)
Slice(text, a, b) == SubSeq(text, a, b)

RECURSIVE LStrip(_)
LStrip(text) ==
    IF text # <<>> /\ Head(text) = " " THEN LStrip(Tail(text)) ELSE text

RECURSIVE RStrip(_)
RStrip(text) ==
    IF text # <<>> /\ text[Len(text)] = " "
    THEN RStrip(SubSeq(text, 1, Len(text) - 1)) ELSE text

\* str.strip()
Strip(text) == RStrip(LStrip(text))

\* the part of text before the first fence
UpToFence(text) ==
    LET f == Find(text, "~~~", 1)
    IN IF f = 0 THEN text ELSE SubSeq(text, 1, f - 1)

\* the first position where a fence directly followed by java starts, 0 if none
FindFenceJava(text) ==
    LET hits == {i \in 1..(Len(text) - 1) : text[i] = "~~~" /\ text[i + 1] = "java"}
    IN IF hits = {} THEN 0 ELSE CHOOSE i \in hits : \A j \in hits : i <= j

\* the content between the tags (lines 148-153), "" when a tag is missing
TagContent(text, tag) ==
    LET s == Find(text, StartTag(tag), 1)
    IN IF s = 0 THEN <<>>
       ELSE LET e == Find(text, EndTag(tag), s + 1)
            IN IF e = 0 THEN <<>> ELSE Slice(text, s + 1, e - 1)

\* the markdown fallback (lines 156-168)
MarkdownContent(text, content) ==
    IF FindFenceJava(text) # 0
    THEN \* text.split(fence + "java")[1].split(fence)[0]
         UpToFence(SubSeq(text, FindFenceJava(text) + 2, Len(text)))
    ELSE IF Find(text, "~~~", 1) # 0
    THEN \* parts = text.split(fence); content = parts[1]
         LET part == UpToFence(SubSeq(text, Find(text, "~~~", 1) + 1, Len(text)))
         IN IF Strip(part) # <<>> /\ Head(Strip(part)) = "java"
            THEN Tail(Strip(part))       \* content.strip()[4:]
            ELSE part
    ELSE content

\* PatchParser.strip_answer_helper(text, tag)
strip_answer_helper(text, tag) ==
    LET content == TagContent(text, tag)
    IN Strip(IF Strip(content) = <<>> THEN MarkdownContent(text, content)
             ELSE content)

\* all token sequences of length at most n over alphabet A
RECURSIVE SeqsUpTo(_, _)
SeqsUpTo(A, n) ==
    IF n = 0 THEN {<<>>}
    ELSE LET shorter == SeqsUpTo(A, n - 1)
         IN shorter \cup {Append(t, a) : t \in {u \in shorter : Len(u) = n - 1}, a \in A}

-----------------------------------------------------------------------------
\* Payloads: mappings from field name to value.
\* d[k] = v on a copy of d
SetKey(d, k, v) == [x \in (DOMAIN d) \cup {k} |-> IF x = k THEN v ELSE d[x]]

\* initial_state of run() (lines 328-331)
initial_state == [root_cause |-> <<"rc">>, vulnerable_code |-> <<"vc">>]

\* the result of a parser call
ParseResult(h, out, raised) == [heap |-> h, out |-> out, raised |-> raised]

\* PatchParser.parse_generate_answer(state, texts); state is heap[sid]
RECURSIVE GenerateLoop(_, _, _, _, _)
GenerateLoop(h, sid, texts, i, new_states) ==
    IF i > Len(texts) THEN ParseResult(h, new_states, FALSE)
    ELSE LET patched_code == strip_answer_helper(texts[i], "PatchedCode")
         IN IF patched_code # <<>>
            THEN \* new_state = state.copy(); new_state['patched_code'] = ...
                 GenerateLoop(Append(h, SetKey(h[sid], "patched_code", patched_code)),
                              sid, texts, i + 1, Append(new_states, Len(h) + 1))
            ELSE GenerateLoop(h, sid, texts, i + 1, new_states)

\* mutant: the test "if patched_code" is missing
RECURSIVE GenerateLoopUnfiltered(_, _, _, _, _)
GenerateLoopUnfiltered(h, sid, texts, i, new_states) ==
    IF i > Len(texts) THEN ParseResult(h, new_states, FALSE)
    ELSE GenerateLoopUnfiltered(
             Append(h, SetKey(h[sid], "patched_code",
                              strip_answer_helper(texts[i], "PatchedCode"))),
             sid, texts, i + 1, Append(new_states, Len(h) + 1))

parse_generate_answer_unfiltered(h, sid, texts) ==
    GenerateLoopUnfiltered(h, sid, texts, 1, <<>>)

\* mutant: new_state = state instead of state.copy()
RECURSIVE GenerateLoopAlias(_, _, _, _, _)
GenerateLoopAlias(h, sid, texts, i, new_states) ==
    IF i > Len(texts) THEN ParseResult(h, new_states, FALSE)
    ELSE LET patched_code == strip_answer_helper(texts[i], "PatchedCode")
         IN IF patched_code # <<>>
            THEN GenerateLoopAlias([h EXCEPT ![sid] = SetKey(h[sid], "patched_code", patched_code)],
                                   sid, texts, i + 1, Append(new_states, sid))
            ELSE GenerateLoopAlias(h, sid, texts, i + 1, new_states)

parse_generate_answer_alias(h, sid, texts) == GenerateLoopAlias(h, sid, texts, 1, <<>>)

parse_generate_answer(h, sid, texts) == GenerateLoop(h, sid, texts, 1, <<>>)

\* PatchParser.parse_improve_answer(state, texts): texts[0] raises IndexError
\* on an empty list; without a patch the state object itself is returned.
parse_improve_answer(h, sid, texts) ==
    IF Len(texts) = 0 THEN ParseResult(h, <<>>, TRUE)
    ELSE LET patched_code == strip_answer_helper(texts[1], "PatchedCode")
         IN IF patched_code # <<>>
            THEN ParseResult(Append(h, SetKey(h[sid], "patched_code", patched_code)),
                             <<Len(h) + 1>>, FALSE)
            ELSE ParseResult(h, <<sid>>, FALSE)

\* PatchParser.parse_aggregation_answer(original_states, texts): texts[0] and
\* original_states[0] raise IndexError on an empty list.
parse_aggregation_answer(h, sids, texts) ==
    IF Len(texts) = 0 THEN ParseResult(h, <<>>, TRUE)
    ELSE LET final_code == strip_answer_helper(texts[1], "FinalCode")
         IN IF final_code # <<>>
            THEN IF Len(sids) = 0 THEN ParseResult(h, <<>>, TRUE)
                 ELSE ParseResult(Append(h, SetKey(h[sids[1]], "final_code", final_code)),
                                  <<Len(h) + 1>>, FALSE)
            ELSE ParseResult(h, <<>>, FALSE)

\* JSON members of the texts
ScoreMembers == {"score:7", "score:-1", "score:null", "score:str"}
Members == ScoreMembers \cup {"rationale:r"}

\* json.loads(json_text): a number, an object of members, or JSONDecodeError
json_loads(json_text) ==
    LET t == Strip(json_text)
    IN IF t = <<"7">>
       THEN [ok |-> TRUE, dict |-> FALSE, members |-> <<>>]
       ELSE IF /\ Len(t) >= 2
               /\ t[1] = "{"
               /\ t[Len(t)] = "}"
               /\ \A i \in 2..(Len(t) - 1) : t[i] \in Members \cup {" "}
       THEN [ok |-> TRUE, dict |-> TRUE, members |-> SubSeq(t, 2, Len(t) - 1)]
       ELSE [ok |-> FALSE, dict |-> FALSE, members |-> <<>>]

\* parsed.get("score", 0.0): the last "score" member, or the default
GetScore(members) ==
    LET hits == {i \in 1..Len(members) : members[i] \in ScoreMembers}
    IN IF hits = {} THEN "default"
       ELSE members[CHOOSE i \in hits : \A j \in hits : i >= j]

\* float(...) of it: TypeError for null, ValueError for a non-numeric string
FloatRaises(v) == v \in {"score:null", "score:str"}
Float(v) == CASE v = "score:7" -> 7
              [] v = "score:-1" -> -1
              [] OTHER -> 0

\* parsed.get("rationale", "")
GetRationale(members) ==
    IF \E i \in 1..Len(members) : members[i] = "rationale:r" THEN <<"r">> ELSE <<>>

\* the score appended on a parsing failure (line 231)
FailureScore == 0

\* the JSON part of a response (lines 207-213)
JsonText(text) ==
    LET json_text == strip_answer_helper(text, "Evaluation")
    IN IF json_text = <<>>
       THEN LET start == Find(text, "{", 1)
                end == RFind(text, "}")
            IN IF start # 0 THEN Slice(text, start, end) ELSE json_text
       ELSE json_text

\* states[i][k] = v if i < len(states)
SetInState(h, sids, i, k, v) ==
    IF i <= Len(sids)
    THEN [h EXCEPT ![sids[i]] = SetKey(h[sids[i]], k, v)]
    ELSE h

\* PatchParser.parse_score_answer(states, texts), with the json module
\* bound as it is when the file runs as a script (line 367)
RECURSIVE ScoreLoop(_, _, _, _, _)
ScoreLoop(h, sids, texts, i, scores) ==
    IF i > Len(texts) THEN ParseResult(h, scores, FALSE)
    ELSE LET text == texts[i]
             parsed == json_loads(JsonText(text))
             v == GetScore(parsed.members)
         IN IF ~parsed.ok
            THEN \* except (json.JSONDecodeError, KeyError, IndexError)
                 ScoreLoop(SetInState(h, sids, i, "rationale",
                                      <<"Failed to parse score from LLM response: ">> \o text),
                           sids, texts, i + 1, Append(scores, FailureScore))
            ELSE IF ~parsed.dict \/ FloatRaises(v)
            THEN \* AttributeError, TypeError, ValueError: not caught
                 ParseResult(h, <<>>, TRUE)
            ELSE ScoreLoop(SetInState(SetInState(h, sids, i, "score", Float(v)),
                                      sids, i, "rationale", GetRationale(parsed.members)),
                           sids, texts, i + 1, Append(scores, Float(v)))

parse_score_answer(h, sids, texts) == ScoreLoop(h, sids, texts, 1, <<>>)

\* PatchPrompter.aggregation_prompt(state_dicts): the candidates, numbered,
\* each in a java block, after the root cause and the vulnerable code of
\* the first state.
RECURSIVE PatchesStr(_, _)
PatchesStr(state_dicts, i) ==
    IF i > Len(state_dicts) THEN <<>>
    ELSE <<"--- Candidate Solution", ToString(i), "~~~", "java">>
         \o state_dicts[i].patched_code \o <<"~~~", " ">>
         \o PatchesStr(state_dicts, i + 1)

aggregation_prompt(state_dicts) ==
    LET state == state_dicts[1]
    IN <<"<Instruction>", "<Root Cause Analysis>">> \o state.root_cause
       \o <<"<Vulnerable Code>">> \o state.vulnerable_code
       \o <<"<Validated Candidate Solutions>">>
       \o Strip(PatchesStr(state_dicts, 1)) \o <<"<FinalCode>">>

-----------------------------------------------------------------------------
\* Inputs of the parser

GenerateAlphabet == {"<PatchedCode>", "</PatchedCode>", "~~~", "java", " ", "x"}
FinalAlphabet == {"<FinalCode>", "</FinalCode>", "~~~", "java", " ", "x"}
ScoreAlphabet == {"<Evaluation>", "</Evaluation>", "~~~", "{", "}", "x", "7",
                  "score:7", "score:-1", "score:null", "rationale:r"}

GenerateSamples ==
    { <<"x", "<PatchedCode>", " ", "x", " ", "</PatchedCode>">>,
      <<"x", "~~~", "java", " ", "y", "~~~", "x">>,
      <<"<PatchedCode>", " ", "</PatchedCode>", "~~~", " ", "java", "y", "~~~">>,
      <<"x", "y">> }

FinalSamples ==
    { <<"x", "<FinalCode>", " ", "x", " ", "</FinalCode>">>,
      <<"<PatchedCode>", "x", "</PatchedCode>">>,
      <<"~~~", "java", " ", "y", "~~~">> }

ScoreSamples ==
    { <<"<Evaluation>", "{", "score:7", "rationale:r", "}", "</Evaluation>">>,
      <<"x", "{", "rationale:r", "score:-1", "}", "x">>,
      <<"~~~", "x", "{", "score:7", "}", "~~~">>,
      <<"{", "score:str", "}">>,
      <<"x", "y">> }

\* the texts lists: the empty list, every short text alone, and every list
\* of sample texts
TextLists(alphabet, samples) ==
    {<<t>> : t \in SeqsUpTo(alphabet, MaxTextLen)} \cup SeqsUpTo(samples, MaxTexts)

GenerateTextLists == TextLists(GenerateAlphabet, GenerateSamples)
FinalTextLists == TextLists(FinalAlphabet, FinalSamples)
ScoreTextLists == TextLists(ScoreAlphabet, ScoreSamples)

\* a payload as Generate emits it, and one that has no patch yet
patched_state == SetKey(initial_state, "patched_code", <<"old">>)
InputPayloads == {initial_state, patched_state}

\* the state lists handed to the parser: identities 1..n of heap
StateLists == {<<>>, <<patched_state>>, <<patched_state, initial_state>>}

Ids(n) == [i \in 1..n |-> i]

ParserOff ==
    /\ heap = <<>>
    /\ p_method = "none"
    /\ p_states = <<>>
    /\ p_texts = <<>>
    /\ p_pre = <<>>
    /\ p_status = "off"
    /\ p_out = <<>>

FanoutOff ==
    /\ f_n = 0
    /\ f_responses = <<>>
    /\ f_ok = <<>>
    /\ f_pc = "off"

\* a call of a parser method with its arguments
ParserInit ==
    /\ \/ /\ p_method \in {"generate", "improve"}
          /\ \E d \in InputPayloads : heap = <<d>>
          /\ p_texts \in GenerateTextLists
       \/ /\ p_method = "aggregation"
          /\ heap \in StateLists
          /\ p_texts \in FinalTextLists
       \/ /\ p_method = "score"
          /\ heap \in StateLists
          /\ p_texts \in ScoreTextLists
    /\ p_states = Ids(Len(heap))
    /\ p_pre = heap
    /\ p_status = "call"
    /\ p_out = <<>>

\* the method runs to its return or to the exception it raises
Finish(r) ==
    /\ heap' = r.heap
    /\ p_out' = r.out
    /\ p_status' = IF r.raised THEN "raised" ELSE "returned"
    /\ UNCHANGED <<p_method, p_states, p_texts, p_pre>>

ParseGenerate ==
    /\ p_status = "call" /\ p_method = "generate"
    /\ Finish(parse_generate_answer(heap, p_states[1], p_texts))
    /\ UNCHANGED notParser

ParseImprove ==
    /\ p_status = "call" /\ p_method = "improve"
    /\ Finish(parse_improve_answer(heap, p_states[1], p_texts))
    /\ UNCHANGED notParser

ParseAggregation ==
    /\ p_status = "call" /\ p_method = "aggregation"
    /\ Finish(parse_aggregation_answer(heap, p_states, p_texts))
    /\ UNCHANGED notParser

ParseScore ==
    /\ p_status = "call" /\ p_method = "score"
    /\ Finish(parse_score_answer(heap, p_states, p_texts))
    /\ UNCHANGED notParser

ParserNext ==
    \/ ParseGenerate
    \/ ParseImprove
    \/ ParseAggregation
    \/ ParseScore

-----------------------------------------------------------------------------
\* GeminiLanguageModel._query_lm(prompt, n) feeding parse_generate_answer

\* the texts a successful request can carry
FanoutTexts ==
    { <<"<PatchedCode>", "x", "</PatchedCode>">>,
      <<"~~~", "java", "y", "~~~">>,
      <<"x">>,
      <<>> }

\* responses.append("") in the except branch (line 70)
FailedSampleText == <<>>

\* the returned dict (lines 73-77) and the texts of its choices
QueryLmResult(responses) ==
    [choices |-> [i \in 1..Len(responses) |-> [message |-> [content |-> responses[i]]]]]

ChoiceTexts(r) == [i \in 1..Len(r.choices) |-> r.choices[i].message.content]

FanoutInit ==
    /\ f_n \in 1..MaxBranches
    /\ f_responses = <<>>
    /\ f_ok = <<>>
    /\ f_pc = "query"
    /\ heap = <<initial_state>>
    /\ p_method = "generate"
    /\ p_states = <<1>>
    /\ p_texts = <<>>
    /\ p_pre = heap
    /\ p_status = "off"
    /\ p_out = <<>>

\* one iteration of for _ in range(n): the request succeeds
SampleOk(t) ==
    /\ f_pc = "query"
    /\ Len(f_responses) < f_n
    /\ f_responses' = Append(f_responses, t)
    /\ f_ok' = Append(f_ok, TRUE)
    /\ UNCHANGED <<f_n, f_pc, parserVars>>
    /\ UNCHANGED notFanout

\* one iteration: the request raises, the exception is logged
SampleFail ==
    /\ f_pc = "query"
    /\ Len(f_responses) < f_n
    /\ f_responses' = Append(f_responses, FailedSampleText)
    /\ f_ok' = Append(f_ok, FALSE)
    /\ UNCHANGED <<f_n, f_pc, parserVars>>
    /\ UNCHANGED notFanout

\* _query_lm returns and the texts of the choices are parsed
FanoutParse ==
    /\ f_pc = "query"
    /\ Len(f_responses) = f_n
    /\ f_pc' = "done"
    /\ p_texts' = ChoiceTexts(QueryLmResult(f_responses))
    /\ LET r == parse_generate_answer(heap, p_states[1], p_texts')
       IN /\ heap' = r.heap
          /\ p_out' = r.out
          /\ p_status' = IF r.raised THEN "raised" ELSE "returned"
    /\ UNCHANGED <<f_n, f_responses, f_ok, p_method, p_states, p_pre>>
    /\ UNCHANGED notFanout

FanoutNext ==
    \/ \E t \in FanoutTexts : SampleOk(t)
    \/ SampleFail
    \/ FanoutParse

-----------------------------------------------------------------------------
\* KeepBestN: sort by score descending, ties in input order, keep the top n

\* the position of the first thought with the highest score
BestIndex(ts) ==
    CHOOSE i \in 1..Len(ts) :
        /\ \A j \in 1..Len(ts) : ts[j].score <= ts[i].score
        /\ \A j \in 1..(i - 1) : ts[j].score < ts[i].score

RemoveAt(ts, i) == SubSeq(ts, 1, i - 1) \o SubSeq(ts, i + 1, Len(ts))

RECURSIVE SortByScore(_)
SortByScore(ts) ==
    IF ts = <<>> THEN <<>>
    ELSE <<ts[BestIndex(ts)]>> \o SortByScore(RemoveAt(ts, BestIndex(ts)))

KeepBestN(n, ts) == SubSeq(SortByScore(ts), 1, Min(n, Len(ts)))

\* mutant: the example graph keeps one candidate more
KeepNFour == 3 + 1

\* KeepBestN(n=3) of the example graph (line 277)
KeepN == 3

\* the scores a thought can carry
ScoreValues == {-1, 0, 7}

\* scored thoughts in input order: thought i has id i
RECURSIVE ScoreSeqs(_)
ScoreSeqs(n) ==
    IF n = 0 THEN {<<>>}
    ELSE LET shorter == ScoreSeqs(n - 1)
         IN shorter \cup {Append(t, v) : t \in {u \in shorter : Len(u) = n - 1},
                                          v \in ScoreValues}

ThoughtsOf(scores) ==
    [i \in 1..Len(scores) |->
        [id |-> i, score |-> scores[i], scored |-> TRUE, parents |-> {}]]

KeepOff ==
    /\ k_n = 0
    /\ k_in = <<>>
    /\ k_out = <<>>
    /\ k_pc = "off"

KeepInit ==
    /\ k_n \in 1..MaxKeep
    /\ \E scores \in ScoreSeqs(MaxThoughts) : k_in = ThoughtsOf(scores)
    /\ k_out = <<>>
    /\ k_pc = "ready"

KeepExecute ==
    /\ k_pc = "ready"
    /\ k_out' = KeepBestN(k_n, k_in)
    /\ k_pc' = "done"
    /\ UNCHANGED <<k_n, k_in>>
    /\ UNCHANGED notKeep

KeepNext == KeepExecute

-----------------------------------------------------------------------------
\* The graph built by advanced_patch_graph_with_aggregation and its run

\* graph.operations after the add_operation calls (lines 290-294)
operations == <<"Generate", "Score", "KeepBestN", "Aggregate", "Score">>

\* mutant: the final Score wired to KeepBestN instead of Aggregate
SuccessorsMiswired == {<<1, 2>>, <<2, 3>>, <<3, 4>>, <<3, 5>>}

\* the add_successor calls (lines 297-300)
Successors == {<<1, 2>>, <<2, 3>>, <<3, 4>>, <<4, 5>>}

\* Generate(num_branches_prompt=5) (line 270)
num_branches_prompt == 5

\* graph.operations[4], read back by run() (line 343), counting from 1
final_op == 5

Ops == 1..Len(operations)
Predecessors(op) == {a \in Ops : <<a, op>> \in Successors}
Leaves == {op \in Ops : ~\E b \in Ops : <<op, b>> \in Successors}

\* the thoughts an operation receives: those of its predecessors, in
\* insertion order
RECURSIVE PreviousFrom(_, _)
PreviousFrom(op, a) ==
    IF a > Len(operations) THEN <<>>
    ELSE (IF a \in Predecessors(op) THEN produced[a] ELSE <<>>)
         \o PreviousFrom(op, a + 1)

PreviousThoughts(op) == PreviousFrom(op, 1)

Ready(op) ==
    /\ status[op] = "waiting"
    /\ \A a \in Predecessors(op) : status[a] = "done"

CtrlOff ==
    /\ status = <<>>
    /\ order = <<>>
    /\ produced = <<>>
    /\ next_id = 0
    /\ sample_ok = <<>>
    /\ run_report = "off"

CtrlInit ==
    /\ status = [op \in Ops |-> "waiting"]
    /\ order = <<>>
    /\ produced = [op \in Ops |-> <<>>]
    /\ next_id = 1
    /\ sample_ok = <<>>
    /\ run_report = "none"

\* the controller starts the first ready operation, one at a time
Start(op) ==
    /\ Ready(op)
    /\ \A a \in Ops : status[a] # "running"
    /\ \A a \in 1..(op - 1) : ~Ready(a)
    /\ status' = [status EXCEPT ![op] = "running"]
    /\ order' = Append(order, op)
    /\ UNCHANGED <<produced, next_id, sample_ok, run_report>>
    /\ UNCHANGED notCtrl

Done(op, thoughts) ==
    /\ status' = [status EXCEPT ![op] = "done"]
    /\ produced' = [produced EXCEPT ![op] = thoughts]
    /\ next_id' = next_id + Cardinality({i \in 1..Len(thoughts) : thoughts[i].id >= next_id})
    /\ UNCHANGED <<order, run_report>>
    /\ UNCHANGED notCtrl

\* the positions of ok in increasing order
RECURSIVE Pick(_, _)
Pick(ok, i) ==
    IF i > Len(ok) THEN <<>>
    ELSE (IF ok[i] THEN <<i>> ELSE <<>>) \o Pick(ok, i + 1)

\* the texts of the samples: a sample whose request failed contributes the
\* empty text (responses.append("")), a successful one a tagged patch
SampleTexts(ok) ==
    ChoiceTexts(QueryLmResult(
        [i \in 1..Len(ok) |->
            IF ok[i] THEN <<"<PatchedCode>", "x", "</PatchedCode>">>
            ELSE FailedSampleText]))

\* Generate at the root: one thought per payload parse_generate_answer
\* returns for the texts of the samples
FinishGenerate(op, ok) ==
    /\ status[op] = "running" /\ operations[op] = "Generate"
    /\ sample_ok' = ok
    /\ LET r == parse_generate_answer(<<initial_state>>, 1, SampleTexts(ok))
       IN Done(op, [j \in 1..Len(r.out) |->
                      [id |-> next_id + j - 1, score |-> 0, scored |-> FALSE,
                       parents |-> {}]])

\* Score, one thought at a time: a new scored thought per incoming thought
FinishScore(op, scores) ==
    /\ status[op] = "running" /\ operations[op] = "Score"
    /\ UNCHANGED sample_ok
    /\ LET prev == PreviousThoughts(op)
       IN /\ Len(scores) = Len(prev)
          /\ Done(op, [j \in 1..Len(prev) |->
                         [id |-> next_id + j - 1, score |-> scores[j], scored |-> TRUE,
                          parents |-> {prev[j].id}]])

FinishKeepBestN(op) ==
    /\ status[op] = "running" /\ operations[op] = "KeepBestN"
    /\ UNCHANGED sample_ok
    /\ Done(op, KeepBestN(KeepN, PreviousThoughts(op)))

\* Aggregate: one thought whose parents are all incoming thoughts, or none
FinishAggregate(op, parsed) ==
    /\ status[op] = "running" /\ operations[op] = "Aggregate"
    /\ UNCHANGED sample_ok
    /\ LET prev == PreviousThoughts(op)
       IN IF prev = <<>> \/ ~parsed
          THEN Done(op, <<>>)
          ELSE Done(op, <<[id |-> next_id, score |-> 0, scored |-> FALSE,
                           parents |-> {prev[j].id : j \in 1..Len(prev)}]>>)

\* run() without the emptiness test: final_results[0] raises IndexError
ReportUnchecked(final_results) ==
    IF Len(final_results) >= 1 THEN "saved" ELSE "raised"

\* run() after ctrl.run() returned: final_results = graph.operations[4]
\* .get_thoughts(); a non-empty list is saved, an empty one is reported
ReportOf(final_results) ==
    IF final_results # <<>> THEN "saved" ELSE "empty"

RunReport ==
    /\ \A op \in Ops : status[op] = "done"
    /\ run_report = "none"
    /\ run_report' = ReportOf(produced[final_op])
    /\ UNCHANGED <<status, order, produced, next_id, sample_ok>>
    /\ UNCHANGED notCtrl

CtrlNext ==
    \/ \E op \in Ops : Start(op)
    \/ \E op \in Ops, ok \in [1..num_branches_prompt -> BOOLEAN] : FinishGenerate(op, ok)
    \/ \E op \in Ops, scores \in ScoreSeqs(num_branches_prompt) : FinishScore(op, scores)
    \/ \E op \in Ops : FinishKeepBestN(op)
    \/ \E op \in Ops, parsed \in BOOLEAN : FinishAggregate(op, parsed)
    \/ RunReport

-----------------------------------------------------------------------------
\* ValidateAndImproveOperation on the produced thoughts of its predecessor.
\* A Thought is an object: two lists that hold the same identity hold the
\* same thought, and an assignment to a field is seen through both.

\* a Thought object with its payload and its validity flag
Thought(state, valid) == [state |-> state, valid |-> valid]

ValidateOff ==
    /\ v_objs = <<>>
    /\ v_pre = <<>>
    /\ v_prev = <<>>
    /\ v_thoughts = <<>>
    /\ v_pc = "off"

\* the predecessor is done and has produced up to MaxThoughts thoughts;
\* self.thoughts is the empty list of __init__ (line 247)
ValidateInit ==
    /\ \E n \in 0..MaxThoughts :
          /\ v_objs \in [1..n -> {Thought(s, v) : s \in InputPayloads, v \in BOOLEAN}]
          /\ v_prev = Ids(n)
    /\ v_pre = v_objs
    /\ v_thoughts = <<>>
    /\ v_pc = "ready"

\* the objects after thought.valid = True on each of the listed thoughts
MarkValid(objs, ids) ==
    [i \in 1..Len(objs) |->
        IF \E j \in 1..Len(ids) : ids[j] = i
        THEN [objs[i] EXCEPT !.valid = TRUE]
        ELSE objs[i]]

\* _execute: every previous thought is marked valid and appended, as the
\* object it is, to the list that becomes self.thoughts
ValidateExecute ==
    /\ v_pc = "ready"
    /\ v_objs' = MarkValid(v_objs, v_prev)
    /\ v_thoughts' = v_prev
    /\ v_pc' = "done"
    /\ UNCHANGED <<v_pre, v_prev>>
    /\ UNCHANGED notValidate

ValidateNext == ValidateExecute

-----------------------------------------------------------------------------
\* ChatGPT.chat called by several threads on one instance. The statements
\* after the request are not atomic: self.x += v loads the attribute, adds,
\* and stores it, and another thread can run in between; there is no lock.

Threads == 1..MaxThreads

\* cost of 1000 prompt tokens and of 1000 response tokens, in cents
prompt_token_cost == 3
response_token_cost == 6

\* self.cost for the given token counts, times 1000 (in cents)
CostOf(p, c) == prompt_token_cost * p + response_token_cost * c

ConcOff ==
    /\ t_pc = <<>>
    /\ t_usage = <<>>
    /\ t_tmp = <<>>
    /\ t_k = <<>>
    /\ cost = 0

\* every thread has called chat() and waits for the service
ConcInit ==
    /\ t_pc = [t \in Threads |-> "request"]
    /\ t_usage = [t \in Threads |-> <<0, 0>>]
    /\ t_tmp = [t \in Threads |-> 0]
    /\ t_k = [t \in Threads |-> <<0, 0>>]
    /\ cost = 0

\* response = self.client.chat.completions.create(...): the service answers
Respond(t, pu, cu) ==
    /\ t_pc[t] = "request"
    /\ t_usage' = [t_usage EXCEPT ![t] = <<pu, cu>>]
    /\ used_prompt' = used_prompt + pu
    /\ used_completion' = used_completion + cu
    /\ t_pc' = [t_pc EXCEPT ![t] = "load_prompt"]
    /\ UNCHANGED <<prompt_tokens, completion_tokens, t_tmp, t_k, cost>>
    /\ UNCHANGED notConc

\* self.prompt_tokens += ...: the attribute is loaded
LoadPrompt(t) ==
    /\ t_pc[t] = "load_prompt"
    /\ t_tmp' = [t_tmp EXCEPT ![t] = prompt_tokens]
    /\ t_pc' = [t_pc EXCEPT ![t] = "store_prompt"]
    /\ UNCHANGED <<prompt_tokens, completion_tokens, used_prompt, used_completion,
                   t_usage, t_k, cost>>
    /\ UNCHANGED notConc

\* self.prompt_tokens += ...: the sum is stored
StorePrompt(t) ==
    /\ t_pc[t] = "store_prompt"
    /\ prompt_tokens' = AddUsage(t_tmp[t], t_usage[t][1])
    /\ t_tmp' = [t_tmp EXCEPT ![t] = 0]
    /\ t_pc' = [t_pc EXCEPT ![t] = "load_completion"]
    /\ UNCHANGED <<completion_tokens, used_prompt, used_completion, t_usage, t_k, cost>>
    /\ UNCHANGED notConc

\* self.completion_tokens += ...: the attribute is loaded
LoadCompletion(t) ==
    /\ t_pc[t] = "load_completion"
    /\ t_tmp' = [t_tmp EXCEPT ![t] = completion_tokens]
    /\ t_pc' = [t_pc EXCEPT ![t] = "store_completion"]
    /\ UNCHANGED <<prompt_tokens, completion_tokens, used_prompt, used_completion,
                   t_usage, t_k, cost>>
    /\ UNCHANGED notConc

\* self.completion_tokens += ...: the sum is stored
StoreCompletion(t) ==
    /\ t_pc[t] = "store_completion"
    /\ completion_tokens' = AddUsage(t_tmp[t], t_usage[t][2])
    /\ t_tmp' = [t_tmp EXCEPT ![t] = 0]
    /\ t_pc' = [t_pc EXCEPT ![t] = "read_prompt"]
    /\ UNCHANGED <<prompt_tokens, used_prompt, used_completion, t_usage, t_k, cost>>
    /\ UNCHANGED notConc

\* prompt_tokens_k = float(self.prompt_tokens) / 1000.0
ReadPrompt(t) ==
    /\ t_pc[t] = "read_prompt"
    /\ t_k' = [t_k EXCEPT ![t] = <<prompt_tokens, 0>>]
    /\ t_pc' = [t_pc EXCEPT ![t] = "read_completion"]
    /\ UNCHANGED <<prompt_tokens, completion_tokens, used_prompt, used_completion,
                   t_usage, t_tmp, cost>>
    /\ UNCHANGED notConc

\* completion_tokens_k = float(self.completion_tokens) / 1000.0
ReadCompletion(t) ==
    /\ t_pc[t] = "read_completion"
    /\ t_k' = [t_k EXCEPT ![t] = <<t_k[t][1], completion_tokens>>]
    /\ t_pc' = [t_pc EXCEPT ![t] = "store_cost"]
    /\ UNCHANGED <<prompt_tokens, completion_tokens, used_prompt, used_completion,
                   t_usage, t_tmp, cost>>
    /\ UNCHANGED notConc

\* self.cost = ...; the response is logged and returned
StoreCost(t) ==
    /\ t_pc[t] = "store_cost"
    /\ cost' = CostOf(t_k[t][1], t_k[t][2])
    /\ t_k' = [t_k EXCEPT ![t] = <<0, 0>>]
    /\ t_pc' = [t_pc EXCEPT ![t] = "done"]
    /\ UNCHANGED <<prompt_tokens, completion_tokens, used_prompt, used_completion,
                   t_usage, t_tmp>>
    /\ UNCHANGED notConc

ConcNext ==
    \/ \E t \in Threads, pu \in 0..MaxUsage, cu \in 0..MaxUsage : Respond(t, pu, cu)
    \/ \E t \in Threads : LoadPrompt(t)
    \/ \E t \in Threads : StorePrompt(t)
    \/ \E t \in Threads : LoadCompletion(t)
    \/ \E t \in Threads : StoreCompletion(t)
    \/ \E t \in Threads : ReadPrompt(t)
    \/ \E t \in Threads : ReadCompletion(t)
    \/ \E t \in Threads : StoreCost(t)

-----------------------------------------------------------------------------
\* The specifications

\* the ChatGPT adapter
Init == AdapterInit /\ FanoutOff /\ ParserOff /\ KeepOff /\ CtrlOff /\ ValidateOff /\ ConcOff
Next == AdapterNext
Spec == Init /\ [][Next]_vars

\* a Generate fan-out through _query_lm and parse_generate_answer
InitFanout == AdapterOff /\ FanoutInit /\ KeepOff /\ CtrlOff /\ ValidateOff /\ ConcOff
SpecFanout == InitFanout /\ [][FanoutNext]_vars

\* the PatchParser methods on every input
InitParser == AdapterOff /\ FanoutOff /\ ParserInit /\ KeepOff /\ CtrlOff /\ ValidateOff /\ ConcOff
SpecParser == InitParser /\ [][ParserNext]_vars

\* KeepBestN on every scored thought list
InitKeep == AdapterOff /\ FanoutOff /\ ParserOff /\ KeepInit /\ CtrlOff /\ ValidateOff /\ ConcOff
SpecKeep == InitKeep /\ [][KeepNext]_vars

\* the controller run of the example graph
InitCtrl == AdapterOff /\ FanoutOff /\ ParserOff /\ KeepOff /\ CtrlInit /\ ValidateOff /\ ConcOff
SpecCtrl == InitCtrl /\ [][CtrlNext]_vars

\* ValidateAndImproveOperation after a predecessor
InitValidate == AdapterOff /\ FanoutOff /\ ParserOff /\ KeepOff /\ CtrlOff /\ ValidateInit /\ ConcOff
SpecValidate == InitValidate /\ [][ValidateNext]_vars

\* concurrent chat() calls on one ChatGPT instance
InitConc ==
    AdapterOff /\ FanoutOff /\ ParserOff /\ KeepOff /\ CtrlOff /\ ValidateOff /\ ConcInit
SpecConc == InitConc /\ [][ConcNext]_vars

-----------------------------------------------------------------------------
\* The claims

\* C1: every generate(prompt, count) call that returns, returns at most
\* count completions, also when the prompt was answered before for another
\* count.
C1_AtMostCount ==
    result.kind = "returned" => Len(result.texts) <= num_generations

\* C2: generate never raises, whatever requests fail: a failing backend only
\* shortens the returned list.
C2_NeverRaises == result.kind # "raised"

\* the samples that succeeded with an extractable text, in request order
GoodSamples ==
    Pick([i \in 1..Len(f_ok) |->
            f_ok[i] /\ strip_answer_helper(f_responses[i], "PatchedCode") # <<>>], 1)

FailedSamples == {i \in 1..Len(f_ok) : ~f_ok[i]}

\* C3: after a fan-out of n samples, parse_generate_answer has returned as
\* many payloads as samples succeeded with an extractable text, at most n,
\* and the j-th payload carries the patch of the j-th such sample; a failed
\* sample contributes nothing and nothing is raised.
C3_FanoutDegrades ==
    f_pc = "done" =>
        /\ p_status = "returned"
        /\ Len(p_out) = Len(GoodSamples)
        /\ Len(p_out) <= f_n
        /\ \A j \in 1..Len(p_out) :
              /\ j <= Len(GoodSamples)
              /\ heap[p_out[j]].patched_code =
                     strip_answer_helper(f_responses[GoodSamples[j]], "PatchedCode")

\* witness of C3: five samples, three failed, two payloads
C3_Witness ==
    /\ f_pc = "done"
    /\ f_n = 5
    /\ Cardinality(FailedSamples) = 3
    /\ Len(p_out) = 2
    /\ heap[p_out[1]].patched_code # heap[p_out[2]].patched_code

\* C4: no PatchParser method raises, whatever the texts.
C4_ParserNeverRaises == p_status # "raised"

\* the payloads handed to the parser are as they were at the call
InputsUnmodified ==
    \A i \in 1..Len(p_states) : heap[p_states[i]] = p_pre[p_states[i]]

\* C5: after parse_score_answer has returned, every input payload has the
\* keys and values it had before the call.
C5_ScoreLeavesStates ==
    (p_method = "score" /\ p_status = "returned") => InputsUnmodified

\* C6: parse_score_answer returns one score per text, the score of a text
\* that is just the number 7 is 7, and no returned score is below the
\* sentinel given to unparseable texts.
C6_SentinelIsMinimum ==
    (p_method = "score" /\ p_status = "returned") =>
        /\ Len(p_out) = Len(p_texts)
        /\ \A i \in 1..Len(p_out) :
              /\ FailureScore <= p_out[i]
              /\ (p_texts[i] = <<"7">> => p_out[i] = 7)

\* the texts of the call with an extractable patch, in order
PatchTexts ==
    Pick([i \in 1..Len(p_texts) |->
            strip_answer_helper(p_texts[i], "PatchedCode") # <<>>], 1)

\* C7: every payload parse_generate_answer emits is a new mapping, different
\* from the predecessor's and from the other emitted ones, that equals the
\* predecessor's payload except for patched_code, which holds the parsed
\* patch; the predecessor's payload is as it was.
C7_GenerateMerges ==
    (p_method = "generate" /\ p_status # "call") =>
        /\ p_status = "returned"
        /\ InputsUnmodified
        /\ Len(p_out) = Len(PatchTexts)
        /\ \A j \in 1..Len(p_out) :
              /\ p_out[j] > Len(p_pre)
              /\ \A k \in 1..Len(p_out) : k # j => p_out[k] # p_out[j]
              /\ DOMAIN heap[p_out[j]] = (DOMAIN p_pre[1]) \cup {"patched_code"}
              /\ \A key \in (DOMAIN p_pre[1]) \ {"patched_code"} :
                    heap[p_out[j]][key] = p_pre[1][key]
              /\ j <= Len(PatchTexts)
              /\ heap[p_out[j]]["patched_code"] =
                     strip_answer_helper(p_texts[PatchTexts[j]], "PatchedCode")

\* witness of C7: two payloads emitted from a predecessor that already had a
\* patch, which the parsed patch replaced
C7_Witness ==
    /\ p_method = "generate"
    /\ p_status = "returned"
    /\ Len(p_out) = 2
    /\ "patched_code" \in DOMAIN p_pre[1]
    /\ heap[p_out[1]]["patched_code"] # p_pre[1]["patched_code"]
    /\ heap[p_out[1]]["patched_code"] # heap[p_out[2]]["patched_code"]

\* C8: parse_aggregation_answer on a non-empty list of payloads never
\* raises, returns one new payload when a final code can be parsed from the
\* first text and none otherwise (also for no text at all), and leaves the
\* input payloads as they were.
C8_AggregateAtMostOne ==
    (p_method = "aggregation" /\ Len(p_states) >= 1 /\ p_status # "call") =>
        /\ p_status = "returned"
        /\ InputsUnmodified
        /\ Len(p_out) <= 1
        /\ \A j \in 1..Len(p_out) : p_out[j] > Len(p_pre)

\* C9: KeepBestN(n) emits min(n, s) of its s input thoughts, each at most
\* once, by descending score, equal scores in input order; with the n of
\* the example graph that is at most 3 thoughts.
C9_KeepBestN ==
    k_pc = "done" =>
        /\ Len(k_out) = Min(k_n, Len(k_in))
        /\ \A j \in 1..Len(k_out) : \E i \in 1..Len(k_in) : k_out[j] = k_in[i]
        /\ \A j \in 1..Len(k_out), l \in 1..Len(k_out) :
              j < l =>
                 /\ k_out[j].id # k_out[l].id
                 /\ k_out[j].score >= k_out[l].score
                 /\ (k_out[j].score = k_out[l].score => k_out[j].id < k_out[l].id)
        /\ (k_n = KeepN => Len(k_out) <= 3)

\* witness of C9: fewer thoughts than n, and a tie kept in input order
C9_Witness ==
    /\ k_pc = "done"
    /\ k_n = KeepN
    /\ Len(k_in) = 2
    /\ Len(k_out) = 2
    /\ k_out[1].score = k_out[2].score

\* witness of C9, the other case: more thoughts than n
C9_WitnessCut ==
    /\ k_pc = "done"
    /\ k_n = KeepN
    /\ Len(k_in) = 4
    /\ Len(k_out) = 3
    /\ k_out[1].id = 4

\* C10: an operation is started only when all its predecessors are done,
\* each operation is started once, in the order Generate, Score,
\* KeepBestN, Aggregate, Score of the graph's insertion order, the
\* operation run() reads back is the only leaf, and an operation that is
\* done stays done.
C10_Order ==
    /\ \A op \in Ops :
          status[op] # "waiting" => \A a \in Predecessors(op) : status[a] = "done"
    /\ order = SubSeq(Ids(Len(operations)), 1, Len(order))
    /\ \A op \in Ops :
          status[op] # "waiting" <=> \E j \in 1..Len(order) : order[j] = op
    /\ [j \in 1..Len(order) |-> operations[order[j]]]
          = SubSeq(<<"Generate", "Score", "KeepBestN", "Aggregate", "Score">>,
                   1, Len(order))
    /\ Leaves = {final_op}

C10_Run ==
    /\ []C10_Order
    /\ [][\A op \in Ops : status[op] = "done" =>
              (status'[op] = "done" /\ produced'[op] = produced[op])]_vars

\* witness of C10: the run is over, all five operations done
C10_Witness ==
    /\ \A op \in Ops : status[op] = "done"
    /\ order = <<1, 2, 3, 4, 5>>
    /\ produced[final_op] # <<>>

\* C11: when every sample of the root Generate failed, Generate and every
\* operation after it (Score, KeepBestN, Aggregate, the final Score)
\* complete with no thoughts, the run does not stop before all five
\* operations are done and run() has reported, and the report of run() is
\* the empty final result. In every run Generate produces one thought per
\* successful sample.
Starved ==
    /\ Len(sample_ok) = num_branches_prompt
    /\ \A i \in 1..Len(sample_ok) : ~sample_ok[i]

SuccessStep == ok_chats' = ok_chats + 1
FailureStep == failed_chats' = failed_chats + 1 \/ tries' = tries + 1
CacheHitStep == pc = "idle" /\ pc' = "idle" /\ calls' = calls + 1

C13_Counters ==
    [][/\ prompt_tokens' >= prompt_tokens
       /\ completion_tokens' >= completion_tokens
       /\ prompt_tokens' = used_prompt'
       /\ completion_tokens' = used_completion'
       /\ SuccessStep =>
             /\ prompt_tokens' - prompt_tokens = used_prompt' - used_prompt
             /\ completion_tokens' - completion_tokens
                   = used_completion' - used_completion
       /\ FailureStep \/ CacheHitStep =>
             /\ prompt_tokens' = prompt_tokens
             /\ completion_tokens' = completion_tokens]_vars

\* witness of C13: a second call answered from the cache after a first call
\* in which a request failed and requests with usage succeeded
C13_Witness ==
    /\ cache
    /\ calls = 2
    /\ pc = "idle"
    /\ result.kind = "returned"
    /\ ok_chats = 0
    /\ total_num_attempts = 2
    /\ num_generations = 1
    /\ prompt_tokens = 2
    /\ completion_tokens = 1

\* C15: a query for count >= 2 makes at most count chat() calls that fail
\* and at most count that succeed, and once the attempts are used up it
\* stops making requests and returns the completions gathered so far.
Exhausted == pc = "loop" /\ total_num_attempts = 0

C15_Bounded ==
    [][/\ num_generations' >= 2 =>
             /\ failed_chats' <= num_generations'
             /\ ok_chats' <= num_generations'
       /\ Exhausted =>
             /\ pc' = "idle"
             /\ result' = Returned(FlattenChoices(response))
             /\ ok_chats' = ok_chats
             /\ failed_chats' = failed_chats]_vars

\* witness of C15: count requests failed, none succeeded, the empty list
\* was returned
C15_Witness ==
    /\ pc = "idle"
    /\ num_generations = MaxCount
    /\ failed_chats = num_generations
    /\ ok_chats = 0
    /\ result = Returned(<<>>)

\* witness of C15, the other case: the attempts ran out after a success,
\* and the completions of that request were returned
C15_WitnessPartial ==
    /\ pc = "idle"
    /\ failed_chats >= 1
    /\ ok_chats = 1
    /\ total_num_attempts = 0
    /\ num_responses > 0
    /\ result.kind = "returned"
    /\ Len(result.texts) >= 1

\* a step of the loop in which a chat() call failed
FailedRequestStep == pc = "loop" /\ failed_chats' = failed_chats + 1

\* C16, as stated: after every failed request the remaining count is
\* unchanged, one attempt is consumed, and the next request size is
\* ceil(remaining / 2), strictly smaller than the size of the failed request.
C16_HalvesRemaining ==
    [][FailedRequestStep =>
          /\ num_responses' = num_responses
          /\ total_num_attempts' = total_num_attempts - 1
          /\ next_try' = (num_responses + 1) \div 2
          /\ next_try' < next_try]_vars

\* C16, amended: after every failed request the remaining count is
\* unchanged, one attempt is consumed, and the next request size is
\* ceil(size of the failed request / 2), which is smaller than the failed
\* size unless that size was 1, and then it stays 1.
C16_HalvesBatch ==
    [][FailedRequestStep =>
          /\ num_responses' = num_responses
          /\ total_num_attempts' = total_num_attempts - 1
          /\ next_try' = (next_try + 1) \div 2
          /\ next_try > 1 => next_try' < next_try
          /\ next_try = 1 => next_try' = 1]_vars

\* witness of C16: two requests failed in a row with three completions
\* remaining; the next request size is 1, not ceil(3 / 2)
C16_Witness ==
    /\ pc = "loop"
    /\ failed_chats = 2
    /\ ok_chats = 0
    /\ num_responses = 3
    /\ total_num_attempts = 1
    /\ next_try = 1

\* C17: for count >= 2, every request of the loop is issued with
\* 1 <= next_try <= num_responses, so that assert next_try > 0 holds and no
\* request asks for more than is still owed, and next_try never increases
\* from one request of a query to the next.
C17_BatchInRange ==
    [][/\ (pc' = "loop" /\ LoopCond') =>
             (1 <= next_try' /\ next_try' <= num_responses')
       /\ (pc = "loop" /\ pc' = "loop") => next_try' <= next_try]_vars

\* witness of C17: after a failure and a success the loop is about to ask
\* for the one completion still owed
C17_Witness ==
    /\ pc = "loop"
    /\ num_generations = 3
    /\ failed_chats = 1
    /\ ok_chats = 1
    /\ num_responses = 1
    /\ next_try = 1
    /\ total_num_attempts = 2

\* C12: no thought that get_thoughts of ValidateAndImproveOperation
\* returns is a produced thought of its predecessor, and no thought of the
\* predecessor has a field changed by the operation.
C12_OwnedByProducer ==
    /\ \A j \in 1..Len(v_thoughts), i \in 1..Len(v_prev) : v_thoughts[j] # v_prev[i]
    /\ \A i \in 1..Len(v_prev) : v_objs[v_prev[i]] = v_pre[v_prev[i]]

\* C14: when all concurrent chat() calls have returned, prompt_tokens and
\* completion_tokens are the sums of the usages of their responses, and
\* cost is the cost of these totals.
AllReturned == \A t \in Threads : t_pc[t] = "done"

C14_NoLostUpdate ==
    AllReturned =>
        /\ prompt_tokens = used_prompt
        /\ completion_tokens = used_completion
        /\ cost = CostOf(prompt_tokens, completion_tokens)

====
